---- MODULE Spec2Model ----
(***************************************************************************)
(* Off-chain co-signing protocol of the backgammon escrow game:            *)
(*   - the relay (WebSocket server, message switch and HTTP endpoints),    *)
(*   - the per-participant engine (GameScreen component + WebSocketClient),*)
(*   - the ledger as the engines use it (sendRawTransaction / confirm).    *)
(*                                                                         *)
(* Public keys are small integers: player1 = 1, player2 = 2, any other     *)
(* client = 3.  Connection c of the relay belongs to the client with       *)
(* public key c.  A transaction is its id, its instruction and the set of  *)
(* required signers whose signature slot is filled.  A board is named by   *)
(* the id of the transaction that proposes it (0 = INITIAL_BOARD).         *)
(***************************************************************************)
EXTENDS Integers, Sequences, FiniteSets, TLC

\* ---------------------------------------------------------------- bounds
MaxCalls     == 2      \* confirmMove / confirmWin calls and third-client frames together
MaxRolls     == 1      \* rollDice calls over both engines
MaxFrames    == 1      \* frames and POSTs sent by raw clients (RelaySpec)
MaxInbox     == 2      \* undelivered frames per connection (RelaySpec)

\* ------------------------------------------------------------- constants
Players == {1, 2}
Conns   == {1, 2, 3}
Games   == {"S1", "S2"}
S1      == "S1"        \* the gamePubkey prop of both GameScreen instances

\* an absent transactionData field: no bytes, no signature slots
NoTx    == [id |-> 0, kind |-> "none", slots |-> <<>>]
NoBoard == 0 - 1   \* an absent boardPoints field

VARIABLES
  \* relay
  games,                \* rows of the games table
  moves,                \* number of rows of the moves table (for S1)
  clientSubscriptions,  \* Map<WebSocket, {gamePubkey, playerPubkey}>
  open,                 \* connections whose readyState is OPEN
  inbox,                \* frames the relay sent to a connection, not yet handled
  lastFrame,            \* history: the last frame the relay handled, and its sender
  relaySeq,             \* history: number of frames the relay handled (RelaySpec)
  lastPost,             \* history: the last POST .../move the server answered (RelaySpec)
  \* engine (one GameScreen per player)
  gameInfo, loadPending, currentTurn, isMyTurn, dice, selectedCell,
  isProcessingMove, isProcessingFinish, pendingMove, pendingFinish,
  winnerBanner, boardPoints,
  hPendingMove,         \* pendingMove as captured by the current messageHandler closure
  asyncOps,             \* confirmMove / confirmWin calls suspended at an await
  nextId,               \* number of confirmMove / confirmWin calls so far
  \* ledger as seen by the engines
  inFlight,             \* sendRawTransaction calls not yet confirmed or rejected
  ledgerLog,            \* history: every transaction handed to the ledger, with the caller
  processed,            \* ids of move transactions the ledger confirmed
  ledgerFinished,       \* the ledger confirmed a finish_game
  announced,            \* history: turn_completed frames sent, with sender
  proposed,             \* history: move_request / finish_request frames sent, with sender
  lastTurnChanged,      \* history: newTurn of the last turn_changed each engine handled (0 = none)
  \* third client
  observed, nReplays, nRolls,
  \* WebSocketClient of each player
  connecting,           \* a socket was created and has not opened or failed yet
  reconnectAttempts,    \* WebSocketClient.reconnectAttempts
  reconnectTimer,       \* delays (ms) of the pending setTimeout calls of attemptReconnect
  delays,               \* history: delays scheduled since the socket was last open
  nLosses,              \* number of sockets closed or failed so far
  disconnected,         \* per player: disconnect() was called and the application
                        \* has not called connect() since
  \* ledger clock
  inactive              \* currentSlot - lastActivitySlot >= FORCE_REFUND_TIMEOUT_SLOTS

socketVars == <<reconnectAttempts, reconnectTimer, delays, nLosses, disconnected>>
linkVars   == <<socketVars, inactive>>
relayVars  == <<games, moves, clientSubscriptions, open, inbox, lastFrame, relaySeq>>
engineVars == <<gameInfo, loadPending, currentTurn, isMyTurn, dice, selectedCell,
                isProcessingMove, isProcessingFinish, pendingMove, pendingFinish,
                winnerBanner, boardPoints, hPendingMove, asyncOps, nextId, connecting>>
ledgerVars == <<inFlight, ledgerLog, processed, ledgerFinished, announced, proposed,
                lastTurnChanged>>
otherVars  == <<observed, nReplays, nRolls, linkVars, lastPost>>
vars == <<relayVars, engineVars, ledgerVars, otherVars>>

\* --------------------------------------------------------------- frames
\* WSMessage: every frame carries every field; "", 0, NoTx, NoBoard, FALSE stand for
\* an absent (undefined) field.
Msg(t, g, p) ==
  [type |-> t, gamePubkey |-> g, playerPubkey |-> p, player |-> 0, moveIndex |-> 0,
   transactionData |-> NoTx, boardPoints |-> NoBoard, dice |-> FALSE,
   newTurn |-> 0, winnerPubkey |-> 0, error |-> ""]

ErrorMsg(text) == [Msg("error", "", 0) EXCEPT !.error = text]

\* data that JSON.parse rejects
Unparseable == Msg("unparseable", "", 0)

ProtocolKinds ==
  {"move_request", "move_signed", "finish_request", "finish_signed",
   "turn_completed", "game_finished"}

\* ---------------------------------------------------------------- relay
\* the forEach filter without the comparison of gamePubkey
SubscribersAnyGame(g) ==
  {c \in DOMAIN clientSubscriptions : c \in open}

\* wss.clients.forEach filter: readyState OPEN, has a subscription, same gamePubkey
Subscribers(g) ==
  {c \in DOMAIN clientSubscriptions :
     c \in open /\ clientSubscriptions[c].gamePubkey = g}

\* a fan-out that puts the frame in front of the frames a client has not read yet
BroadcastInFront(box, g, m) ==
  [c \in Conns |-> IF c \in Subscribers(g) THEN <<m>> \o box[c] ELSE box[c]]

\* wss.clients.forEach(client => client.send(...)) over the subscribers of g
Broadcast(box, g, m) ==
  [c \in Conns |-> IF c \in Subscribers(g) THEN Append(box[c], m) ELSE box[c]]

Reply(box, c, m) == [box EXCEPT ![c] = Append(@, m)]

\* db "SELECT player1, player2 FROM games WHERE game_pubkey = ?"
GameFound(g) == \E r \in games : r.game_pubkey = g

\* turn_completed is re-packed as turn_changed {type, gamePubkey, newTurn}
TurnChangedMessage(m) ==
  [Msg("turn_changed", m.gamePubkey, 0) EXCEPT !.newTurn = m.newTurn]

SubscribeValid(m) == m.gamePubkey /= "" /\ m.playerPubkey /= 0

\* a catch block that only logs
OnParseErrorSilent(box, c) == box

\* catch of ws.on("message"): one error reply to the connection that sent the data
OnParseError(box, c) == Reply(box, c, ErrorMsg("Failed to process message"))

\* the message switch with a fan-out that skips the sending connection
RelayOnMessageNoEcho(box, c, m) ==
  LET others(g, f) ==
        [d \in Conns |-> IF d \in Subscribers(g) /\ d /= c THEN Append(box[d], f)
                         ELSE box[d]]
  IN CASE m = Unparseable -> OnParseError(box, c)
       [] m.type = "subscribe" ->
            IF ~SubscribeValid(m)
            THEN Reply(box, c, ErrorMsg("Missing gamePubkey or playerPubkey"))
            ELSE Reply(box, c, Msg("subscribed", m.gamePubkey, m.playerPubkey))
       [] m.type = "chat" -> others(m.gamePubkey, m)
       [] m.type \in {"move_request", "move_signed", "finish_signed"} ->
            IF ~GameFound(m.gamePubkey)
            THEN Reply(box, c, ErrorMsg("Game not found"))
            ELSE others(m.gamePubkey, m)
       [] m.type = "turn_completed" -> others(m.gamePubkey, TurnChangedMessage(m))
       [] m.type \in {"finish_request", "game_finished", "manual_finished"} ->
            others(m.gamePubkey, m)
       [] OTHER -> box

\* ws.on("message"): the frames the handler sends, as the new inboxes
RelayOnMessage(box, c, m) ==
  CASE m = Unparseable -> OnParseError(box, c)
    [] m.type = "subscribe" ->
         IF ~SubscribeValid(m)
         THEN Reply(box, c, ErrorMsg("Missing gamePubkey or playerPubkey"))
         ELSE Reply(box, c, Msg("subscribed", m.gamePubkey, m.playerPubkey))
    [] m.type = "chat" -> Broadcast(box, m.gamePubkey, m)
    [] m.type \in {"move_request", "move_signed", "finish_signed"} ->
         IF ~GameFound(m.gamePubkey)
         THEN Reply(box, c, ErrorMsg("Game not found"))
         ELSE Broadcast(box, m.gamePubkey, m)
    [] m.type = "turn_completed" ->
         Broadcast(box, m.gamePubkey, TurnChangedMessage(m))
    [] m.type \in {"finish_request", "game_finished", "manual_finished"} ->
         Broadcast(box, m.gamePubkey, m)
    [] OTHER -> box

\* a subscribe handler that keeps the first subscription of a connection
RelaySubscribeOnce(subs, c, m) ==
  IF m.type = "subscribe" /\ SubscribeValid(m) /\ c \notin DOMAIN subs
  THEN [d \in (DOMAIN subs) \cup {c} |->
          IF d = c THEN [gamePubkey |-> m.gamePubkey, playerPubkey |-> m.playerPubkey]
          ELSE subs[d]]
  ELSE subs

\* ws.on("message"): the subscription table after the handler
RelaySubscribe(subs, c, m) ==
  IF m.type = "subscribe" /\ SubscribeValid(m)
  THEN [d \in (DOMAIN subs) \cup {c} |->
          IF d = c THEN [gamePubkey |-> m.gamePubkey, playerPubkey |-> m.playerPubkey]
          ELSE subs[d]]
  ELSE subs

\* req.body of POST /api/games/:gamePubkey/move; NoIndex, 0, NoBoard, FALSE stand for an
\* absent moveIndex, player, boardPoints, dice
NoIndex == 0 - 1
FullBody == [moveIndex |-> 1, player |-> 1, boardPoints |-> 0, dice |-> TRUE]
Bodies ==
  {FullBody,
   [FullBody EXCEPT !.moveIndex = 0],
   [FullBody EXCEPT !.moveIndex = NoIndex],
   [FullBody EXCEPT !.player = 0],
   [FullBody EXCEPT !.boardPoints = NoBoard],
   [FullBody EXCEPT !.dice = FALSE]}

\* !moveIndex || !player || !boardPoints || !dice
MissingRequiredFields(b) ==
  \/ b.moveIndex = NoIndex \/ b.moveIndex = 0
  \/ b.player = 0
  \/ b.boardPoints = NoBoard
  \/ ~b.dice

\* the answer of app.post(".../move")
PostMoveStatus(b) == IF MissingRequiredFields(b) THEN 400 ELSE 200

\* app.post(".../move"): the frames it sends
PostMove(box, g, b) ==
  IF MissingRequiredFields(b) THEN box
  ELSE Broadcast(box, g, [Msg("move", g, 0) EXCEPT !.player = b.player,
                                                   !.moveIndex = b.moveIndex,
                                                   !.boardPoints = b.boardPoints,
                                                   !.dice = b.dice])

\* a close handler that forgets to delete the subscription
RelayOnCloseKeeps(subs, c) == subs

\* ws.on("close")
RelayOnClose(subs, c) == [d \in (DOMAIN subs) \ {c} |-> subs[d]]

\* --------------------------------------------------- the relay on its own
\* Three raw clients drive the relay with arbitrary frames (RelaySpec).
RawKinds == ProtocolKinds \cup {"chat", "manual_finished", "ping"}

RawFrames(c) ==
  {Unparseable, Msg("subscribe", S1, 0)}
    \cup {Msg("subscribe", g, c) : g \in Games \cup {""}}
    \cup {[Msg(t, g, c) EXCEPT !.newTurn = IF t = "turn_completed" THEN 2 ELSE 0] :
            t \in RawKinds, g \in Games}

\* app.post("/api/games"): INSERT, a second row for the same game_pubkey is refused
RegisterGame(g) ==
  /\ ~GameFound(g)
  /\ games' = games \cup {[game_pubkey |-> g, player1 |-> 1, player2 |-> 2, status |-> "waiting"]}
  /\ UNCHANGED <<moves, clientSubscriptions, open, inbox, lastFrame, relaySeq,
                 engineVars, ledgerVars, otherVars>>

RawSend(c, m) ==
  /\ c \in open
  /\ relaySeq + lastPost.seq < MaxFrames
  /\ \A d \in Conns : Len(inbox[d]) < MaxInbox
  /\ inbox' = RelayOnMessage(inbox, c, m)
  /\ clientSubscriptions' = RelaySubscribe(clientSubscriptions, c, m)
  /\ lastFrame' = [from |-> c, msg |-> m]
  /\ relaySeq' = relaySeq + 1
  /\ UNCHANGED <<games, moves, open, engineVars, ledgerVars, otherVars>>

\* a POST .../move from any HTTP client; moves counts the rows of S1
HttpLogMove(g, b) ==
  /\ relaySeq + lastPost.seq < MaxFrames
  /\ \A d \in Conns : Len(inbox[d]) < MaxInbox
  /\ inbox' = PostMove(inbox, g, b)
  /\ moves' = IF ~MissingRequiredFields(b) /\ g = S1 THEN moves + 1 ELSE moves
  /\ lastPost' = [seq |-> lastPost.seq + 1, gamePubkey |-> g, body |-> b,
                  status |-> PostMoveStatus(b)]
  /\ UNCHANGED <<games, clientSubscriptions, open, lastFrame, relaySeq, engineVars,
                 ledgerVars, observed, nReplays, nRolls, linkVars>>

RawRecv(c) ==
  /\ inbox[c] /= <<>>
  /\ inbox' = [inbox EXCEPT ![c] = Tail(@)]
  /\ UNCHANGED <<games, moves, clientSubscriptions, open, lastFrame, relaySeq,
                 engineVars, ledgerVars, otherVars>>

RawClose(c) ==
  /\ c \in open
  /\ open' = open \ {c}
  /\ clientSubscriptions' = RelayOnClose(clientSubscriptions, c)
  /\ inbox' = [inbox EXCEPT ![c] = <<>>]
  /\ UNCHANGED <<games, moves, lastFrame, relaySeq, engineVars, ledgerVars, otherVars>>

RawConnect(c) ==
  /\ c \notin open
  /\ open' = open \cup {c}
  /\ UNCHANGED <<games, moves, clientSubscriptions, inbox, lastFrame, relaySeq,
                 engineVars, ledgerVars, otherVars>>

\* engine, ledger and observer state right after both GameScreens mounted
EngineInit ==
  /\ gameInfo = [p \in Players |-> FALSE]
  /\ loadPending = [p \in Players |-> TRUE]
  /\ currentTurn = [p \in Players |-> 1]
  /\ isMyTurn = [p \in Players |-> FALSE]
  /\ dice = [p \in Players |-> FALSE]
  /\ selectedCell = [p \in Players |-> FALSE]
  /\ isProcessingMove = [p \in Players |-> FALSE]
  /\ isProcessingFinish = [p \in Players |-> FALSE]
  /\ pendingMove = [p \in Players |-> <<>>]
  /\ pendingFinish = [p \in Players |-> <<>>]
  /\ winnerBanner = [p \in Players |-> 0]
  /\ boardPoints = [p \in Players |-> 0]
  /\ hPendingMove = [p \in Players |-> <<>>]
  /\ asyncOps = {}
  /\ nextId = 0
  /\ inFlight = {}
  /\ ledgerLog = <<>>
  /\ processed = {}
  /\ ledgerFinished = FALSE
  /\ announced = {}
  /\ proposed = {}
  /\ lastTurnChanged = [p \in Players |-> 0]
  /\ observed = {}
  /\ nReplays = 0
  /\ nRolls = 0
  /\ lastPost = [seq |-> 0, gamePubkey |-> "", body |-> FullBody, status |-> 0]
  /\ connecting = [p \in Players |-> FALSE]
  /\ reconnectAttempts = [p \in Players |-> 0]
  /\ reconnectTimer = [p \in Players |-> {}]
  /\ delays = [p \in Players |-> <<>>]
  /\ nLosses = 0
  /\ disconnected = [p \in Players |-> FALSE]
  /\ inactive = FALSE

\* every binding table is reachable by subscribe frames
Bindings ==
  UNION {{[d \in D |-> [gamePubkey |-> f[d], playerPubkey |-> d]] : f \in [D -> Games]} :
           D \in SUBSET Conns}

RInit ==
  /\ games = {[game_pubkey |-> S1, player1 |-> 1, player2 |-> 2, status |-> "waiting"]}
  /\ moves = 0
  /\ open = Conns
  /\ clientSubscriptions \in Bindings
  /\ inbox = [c \in Conns |-> <<>>]
  /\ lastFrame = [from |-> 0, msg |-> Msg("none", "", 0)]
  /\ relaySeq = 0
  /\ EngineInit

RNext ==
  \/ \E g \in Games : RegisterGame(g)
  \/ \E c \in Conns : \E m \in RawFrames(c) : RawSend(c, m)
  \/ \E g \in Games : \E b \in Bodies : HttpLogMove(g, b)
  \/ \E c \in Conns : RawRecv(c)
  \/ \E c \in Conns : RawClose(c)
  \/ \E c \in Conns : RawConnect(c)

RelaySpec == RInit /\ [][RNext]_vars

\* ------------------------------------------- the relay with failing sends
\* a client.send that throws out of the forEach: the clients after f in the iteration
\* get nothing and the catch block answers the sender
RelayOnMessageSendThrows(box, c, m, f) ==
  Reply([d \in Conns |-> IF d >= f THEN box[d] ELSE RelayOnMessage(box, c, m)[d]],
        c, ErrorMsg("Failed to process message"))

\* ws.on("message") when client.send(...) to the open client f fails: send() of an
\* OPEN socket returns, the frame to f is lost and the failure is reported on f's own
\* socket; the forEach goes on
RelayOnMessageSendFails(box, c, m, f) ==
  [RelayOnMessage(box, c, m) EXCEPT ![f] = box[f]]

\* the relay handles frame m of client c and its send to the subscriber f fails
RawSendFailing(c, m, f) ==
  /\ c \in open
  /\ relaySeq + lastPost.seq < MaxFrames
  /\ \A d \in Conns : Len(inbox[d]) < MaxInbox
  /\ m /= Unparseable
  /\ f \in Subscribers(m.gamePubkey)
  /\ RelayOnMessage(inbox, c, m)[f] = Append(inbox[f], m)
  /\ inbox' = RelayOnMessageSendFails(inbox, c, m, f)
  /\ clientSubscriptions' = RelaySubscribe(clientSubscriptions, c, m)
  /\ lastFrame' = [from |-> c, msg |-> m]
  /\ relaySeq' = relaySeq + 1
  /\ UNCHANGED <<games, moves, open, engineVars, ledgerVars, otherVars>>

FNext ==
  \/ \E g \in Games : RegisterGame(g)
  \/ \E c \in Conns : \E m \in RawFrames(c) : \E f \in Conns : RawSendFailing(c, m, f)
  \/ \E c \in Conns : RawClose(c)
  \/ \E c \in Conns : RawConnect(c)

FailingSendSpec == RInit /\ [][FNext]_vars

\* ------------------------------------------------- the games table over HTTP
\* the values a request may carry for player1, player2 (0: absent) and for status
\* ("": absent)
Identities == {0} \cup Conns
Statuses == {"", "finished"}

\* a registration that replaces the row of a registered game
InsertOrReplaceGame(rows, g, p1, p2) ==
  {r \in rows : r.game_pubkey /= g} \cup
    {[game_pubkey |-> g, player1 |-> p1, player2 |-> p2, status |-> "waiting"]}

\* "INSERT INTO games ..." on a table with game_pubkey UNIQUE: a second row for the
\* same game_pubkey is refused (409 "Game already exists")
InsertGame(rows, g, p1, p2) ==
  IF \E r \in rows : r.game_pubkey = g
  THEN rows
  ELSE rows \cup {[game_pubkey |-> g, player1 |-> p1, player2 |-> p2, status |-> "waiting"]}

\* POST /api/games
PostGames(g, p1, p2) ==
  /\ games' = IF g = "" \/ p1 = 0 \/ p2 = 0 THEN games ELSE InsertGame(games, g, p1, p2)
  /\ UNCHANGED <<moves, clientSubscriptions, open, inbox, lastFrame, relaySeq,
                 engineVars, ledgerVars, otherVars>>

\* PATCH /api/games/:gamePubkey/status: "UPDATE games SET status = ?, updated_at = ?"
PatchStatus(g, st) ==
  /\ games' = IF st = "" THEN games
              ELSE {IF r.game_pubkey = g THEN [r EXCEPT !.status = st] ELSE r : r \in games}
  /\ UNCHANGED <<moves, clientSubscriptions, open, inbox, lastFrame, relaySeq,
                 engineVars, ledgerVars, otherVars>>

GNext ==
  \/ \E g \in Games \cup {""} : \E p1 \in Identities : \E p2 \in Identities :
       PostGames(g, p1, p2)
  \/ \E g \in Games : \E st \in Statuses : PatchStatus(g, st)
  \/ \E g \in Games : \E b \in Bodies : HttpLogMove(g, b)

GamesSpec == RInit /\ [][GNext]_vars

\* ------------------------------------------------------------ transactions
\* new Transaction().add(ix): player1 and player2 are the instruction's signer keys
NewTx(id, kind) == [id |-> id, kind |-> kind, signers |-> Players, sigs |-> {}]

\* tx.partialSign(keypair) / tx.sign(keypair) of a required signer
PartialSign(tx, p) == [tx EXCEPT !.sigs = @ \cup {p}]

\* tx.serialize({requireAllSignatures, verifySignatures: false}): one signature slot
\* per required signer, filled or zero; nothing is verified
Serialize(tx) ==
  [id |-> tx.id, kind |-> tx.kind, slots |-> [s \in tx.signers |-> s \in tx.sigs]]

\* Transaction.from(Buffer.from(transactionData))
TransactionFrom(data) ==
  [id |-> data.id, kind |-> data.kind, signers |-> DOMAIN data.slots,
   sigs |-> {s \in DOMAIN data.slots : data.slots[s]}]

\* tx.signatures.length: the number of signature slots, filled or not
SignaturesLength(tx) == Cardinality(tx.signers)

\* ------------------------------------------------------------ the ledger
\* The escrow program accepts make_move / finish_game signed by both players, each
\* transaction once, while the game is not finished.
LedgerAccepts(tx) ==
  /\ tx.sigs = Players
  /\ ~ledgerFinished
  /\ tx.id \notin processed

\* ----------------------------------------------------------- the engine
Set(f, p, v) == [f EXCEPT ![p] = v]

\* gameData.game.player1 of the registered game
Player1 == (CHOOSE r \in games : r.game_pubkey = S1).player1

\* WebSocketClient.send*: nothing is sent unless the socket is OPEN; the relay
\* handles the frame on arrival
ClientSend(box, c, m) == IF c \in open THEN RelayOnMessage(box, c, m) ELSE box

\* sendFinishRequest / sendFinishSigned / sendGameFinished
SendFinishFrame(box, c, m) == ClientSend(box, c, m)

\* The third client reads what its connection receives at once and keeps the signed
\* frames.
Deliver(box) ==
  /\ inbox' = [box EXCEPT ![3] = <<>>]
  /\ observed' = observed \cup
       {m \in {box[3][i] : i \in 1..Len(box[3])} : m.type \in {"move_signed", "finish_signed"}}

\* handlePendingFinishSignature: the finish_signed frame
FinishSigned(p, pf) ==
  [Msg("finish_signed", S1, p) EXCEPT
     !.transactionData = Serialize(PartialSign(TransactionFrom(pf.transactionData), p)),
     !.winnerPubkey = pf.winnerPubkey]

\* A render of GameScreen p with new values of the state the effects depend on:
\*  - the WebSocket effect (deps currentTurn, gameInfo) connects when the socket is not
\*    OPEN, subscribes (a no-op unless the socket is OPEN) and installs a messageHandler
\*    that captures the pendingMove of this render (the relay's "subscribed" answer
\*    matches no branch of the handler and is not queued);
\*  - the auto-sign effect (deps isMyTurn, pendingFinish) countersigns a pending finish
\*    when it is not this engine's turn.
\* an engine that countersigns a finish only when its user asks for it
AutoSignsOnRequest(p, mine, pf) == FALSE

AutoSigns(p, mine, pf) ==
  /\ (mine /= isMyTurn[p] \/ pf /= pendingFinish[p])
  /\ ~mine
  /\ pf /= <<>>
  /\ pf[1].transactionData /= NoTx

Render(p, box, turn, info, mine, pm, pf) ==
  LET resub == turn /= currentTurn[p] \/ info /= gameInfo[p]
      box2  == IF AutoSigns(p, mine, pf)
               THEN SendFinishFrame(box, p, FinishSigned(p, pf[1]))
               ELSE box
  IN /\ currentTurn' = Set(currentTurn, p, turn)
     /\ gameInfo' = Set(gameInfo, p, info)
     /\ isMyTurn' = Set(isMyTurn, p, mine)
     /\ pendingMove' = Set(pendingMove, p, pm)
     /\ pendingFinish' = Set(pendingFinish, p, IF AutoSigns(p, mine, pf) THEN <<>> ELSE pf)
     /\ hPendingMove' = Set(hPendingMove, p, IF resub THEN pm ELSE hPendingMove[p])
     /\ clientSubscriptions' =
          IF resub /\ p \in open
          THEN RelaySubscribe(clientSubscriptions, p, Msg("subscribe", S1, p))
          ELSE clientSubscriptions
     /\ connecting' = IF resub /\ p \notin open THEN Set(connecting, p, TRUE)
                      ELSE connecting
     /\ Deliver(box2)

\* a render that changes none of the effects' dependencies
NoRender ==
  UNCHANGED <<currentTurn, gameInfo, isMyTurn, pendingMove, pendingFinish, hPendingMove,
              clientSubscriptions, connecting>>

fixedVars == <<games, open, lastFrame, relaySeq, linkVars, lastPost>>

\* loadGameInfo: getGame answered
LoadGameInfo(p) ==
  /\ loadPending[p]
  /\ GameFound(S1)
  /\ loadPending' = Set(loadPending, p, FALSE)
  /\ Render(p, inbox, IF p = Player1 THEN 1 ELSE 2, TRUE, p = Player1,
            pendingMove[p], pendingFinish[p])
  /\ UNCHANGED <<fixedVars, moves, dice, selectedCell, isProcessingMove,
                 isProcessingFinish, winnerBanner, boardPoints, asyncOps, nextId,
                 ledgerVars, nReplays, nRolls>>

\* loadGameInfo: getGame threw
LoadGameInfoFail(p) ==
  /\ loadPending[p]
  /\ loadPending' = Set(loadPending, p, FALSE)
  /\ UNCHANGED <<relayVars, gameInfo, currentTurn, isMyTurn, dice, selectedCell,
                 isProcessingMove, isProcessingFinish, pendingMove, pendingFinish,
                 winnerBanner, boardPoints, hPendingMove, connecting, asyncOps, nextId,
                 ledgerVars, otherVars>>

\* rollDice with the server's roll-dice endpoint, which broadcasts dice_rolled
RollDice(p) ==
  /\ isMyTurn[p] /\ ~dice[p]
  /\ nRolls < MaxRolls
  /\ nRolls' = nRolls + 1
  /\ dice' = Set(dice, p, TRUE)
  /\ selectedCell' = Set(selectedCell, p, FALSE)
  /\ Deliver(Broadcast(inbox, S1, [Msg("dice_rolled", S1, 0) EXCEPT !.dice = TRUE]))
  /\ NoRender
  /\ UNCHANGED <<fixedVars, moves, loadPending, isProcessingMove, isProcessingFinish,
                 winnerBanner, boardPoints, asyncOps, nextId, ledgerVars, nReplays>>

handleCellClick(p) ==
  /\ isMyTurn[p] /\ dice[p] /\ ~isProcessingMove[p]
  /\ ~selectedCell[p]
  /\ selectedCell' = Set(selectedCell, p, TRUE)
  /\ UNCHANGED <<relayVars, gameInfo, loadPending, currentTurn, isMyTurn, dice,
                 isProcessingMove, isProcessingFinish, pendingMove, pendingFinish,
                 winnerBanner, boardPoints, hPendingMove, connecting, asyncOps, nextId,
                 ledgerVars, otherVars>>

\* confirmMove up to its first await (getGame)
ConfirmMoveStart(p) ==
  /\ isMyTurn[p] /\ dice[p] /\ selectedCell[p] /\ ~isProcessingMove[p]
  /\ nextId + nReplays < MaxCalls
  /\ nextId' = nextId + 1
  /\ isProcessingMove' = Set(isProcessingMove, p, TRUE)
  /\ asyncOps' = asyncOps \cup
       {[id |-> nextId + 1, by |-> p, kind |-> "confirmMove", stage |-> "building",
         moveIndex |-> 0]}
  /\ UNCHANGED <<relayVars, gameInfo, loadPending, currentTurn, isMyTurn, dice,
                 selectedCell, isProcessingFinish, pendingMove, pendingFinish,
                 winnerBanner, boardPoints, hPendingMove, connecting, ledgerVars, otherVars>>

\* the move_request frame of confirmMove
MoveRequest(p, id, idx) ==
  [Msg("move_request", S1, p) EXCEPT
     !.moveIndex = idx, !.boardPoints = id, !.dice = TRUE,
     !.transactionData = Serialize(PartialSign(NewTx(id, "make_move"), p))]

\* confirmMove from getGame's answer to the await of logMove: the transaction is built
\* and signed, move_request is sent, pendingMove is set
ConfirmMoveSend(op) ==
  /\ op \in asyncOps /\ op.kind = "confirmMove" /\ op.stage = "building"
  /\ GameFound(S1)
  /\ LET p == op.by
         idx == moves + 1
     IN /\ Render(p, ClientSend(inbox, p, MoveRequest(p, op.id, idx)),
                  currentTurn[p], gameInfo[p], isMyTurn[p],
                  <<[boardPoints |-> op.id, dice |-> TRUE, moveIndex |-> idx,
                     transactionData |-> NoTx]>>,
                  pendingFinish[p])
        /\ proposed' = IF p \in open
                       THEN proposed \cup {[by |-> p, id |-> op.id, kind |-> "make_move"]}
                       ELSE proposed
        /\ asyncOps' = (asyncOps \ {op}) \cup
                         {[op EXCEPT !.stage = "logging", !.moveIndex = idx]}
  /\ UNCHANGED <<fixedVars, moves, loadPending, dice, selectedCell, isProcessingMove,
                 isProcessingFinish, winnerBanner, boardPoints, nextId, inFlight,
                 ledgerLog, processed, ledgerFinished, announced, lastTurnChanged,
                 nReplays, nRolls>>

\* confirmMove after logMove answered: the server stores the move and broadcasts it;
\* finally { setIsProcessingMove(false); setSelectedCell(null) }
ConfirmMoveLogged(op) ==
  /\ op \in asyncOps /\ op.kind = "confirmMove" /\ op.stage = "logging"
  /\ moves' = moves + 1
  /\ Deliver(Broadcast(inbox, S1,
       [Msg("move", S1, 0) EXCEPT !.player = op.by, !.moveIndex = op.moveIndex,
                                   !.boardPoints = op.id, !.dice = TRUE]))
  /\ isProcessingMove' = Set(isProcessingMove, op.by, FALSE)
  /\ selectedCell' = Set(selectedCell, op.by, FALSE)
  /\ asyncOps' = asyncOps \ {op}
  /\ NoRender
  /\ UNCHANGED <<fixedVars, loadPending, dice, isProcessingFinish, winnerBanner,
                 boardPoints, nextId, ledgerVars, nReplays, nRolls>>

\* confirmMove: an await threw (getGame, createMoveTransaction or logMove); catch, finally
ConfirmMoveCatch(op) ==
  /\ op \in asyncOps /\ op.kind = "confirmMove"
  /\ isProcessingMove' = Set(isProcessingMove, op.by, FALSE)
  /\ selectedCell' = Set(selectedCell, op.by, FALSE)
  /\ asyncOps' = asyncOps \ {op}
  /\ UNCHANGED <<relayVars, gameInfo, loadPending, currentTurn, isMyTurn, dice,
                 isProcessingFinish, pendingMove, pendingFinish, winnerBanner,
                 boardPoints, hPendingMove, connecting, nextId, ledgerVars, otherVars>>

\* confirmWin up to its first await (createFinishTransaction)
ConfirmWinStart(p) ==
  /\ isMyTurn[p] /\ ~isProcessingFinish[p]
  /\ nextId + nReplays < MaxCalls
  /\ nextId' = nextId + 1
  /\ isProcessingFinish' = Set(isProcessingFinish, p, TRUE)
  /\ asyncOps' = asyncOps \cup
       {[id |-> nextId + 1, by |-> p, kind |-> "confirmWin", stage |-> "building",
         moveIndex |-> 0]}
  /\ UNCHANGED <<relayVars, gameInfo, loadPending, currentTurn, isMyTurn, dice,
                 selectedCell, isProcessingMove, pendingMove, pendingFinish,
                 winnerBanner, boardPoints, hPendingMove, connecting, ledgerVars, otherVars>>

\* the finish_request frame of confirmWin
FinishRequest(p, id) ==
  [Msg("finish_request", S1, p) EXCEPT
     !.transactionData = Serialize(PartialSign(NewTx(id, "finish_game"), p)),
     !.winnerPubkey = p]

\* confirmWin after createFinishTransaction: finish_request is sent, pendingFinish is set
ConfirmWinSend(op) ==
  /\ op \in asyncOps /\ op.kind = "confirmWin"
  /\ LET p == op.by
         req == FinishRequest(p, op.id)
     IN /\ Render(p, SendFinishFrame(inbox, p, req),
                  currentTurn[p], gameInfo[p], isMyTurn[p], pendingMove[p],
                  <<[winnerPubkey |-> p, transactionData |-> req.transactionData]>>)
        /\ proposed' = IF p \in open
                       THEN proposed \cup {[by |-> p, id |-> op.id, kind |-> "finish_game"]}
                       ELSE proposed
        /\ isProcessingFinish' = Set(isProcessingFinish, p, FALSE)
  /\ asyncOps' = asyncOps \ {op}
  /\ UNCHANGED <<fixedVars, moves, loadPending, dice, selectedCell, isProcessingMove,
                 winnerBanner, boardPoints, nextId, inFlight, ledgerLog, processed,
                 ledgerFinished, announced, lastTurnChanged, nReplays, nRolls>>

\* confirmWin: createFinishTransaction threw
ConfirmWinCatch(op) ==
  /\ op \in asyncOps /\ op.kind = "confirmWin"
  /\ isProcessingFinish' = Set(isProcessingFinish, op.by, FALSE)
  /\ asyncOps' = asyncOps \ {op}
  /\ UNCHANGED <<relayVars, gameInfo, loadPending, currentTurn, isMyTurn, dice,
                 selectedCell, isProcessingMove, pendingMove, pendingFinish,
                 winnerBanner, boardPoints, hPendingMove, connecting, nextId, ledgerVars,
                 otherVars>>

\* the move_signed frame of handlePendingMoveSignature
MoveSigned(p, pm) ==
  [Msg("move_signed", S1, p) EXCEPT
     !.moveIndex = pm.moveIndex, !.boardPoints = pm.boardPoints, !.dice = pm.dice,
     !.transactionData = Serialize(PartialSign(TransactionFrom(pm.transactionData), p))]

\* the "Sign & Approve Move" button (shown when pendingMove && !isMyTurn)
handlePendingMoveSignature(p) ==
  /\ pendingMove[p] /= <<>> /\ ~isMyTurn[p]
  /\ pendingMove[p][1].transactionData /= NoTx
  /\ Render(p, ClientSend(inbox, p, MoveSigned(p, pendingMove[p][1])),
            currentTurn[p], gameInfo[p], isMyTurn[p], <<>>, pendingFinish[p])
  /\ UNCHANGED <<fixedVars, moves, loadPending, dice, selectedCell, isProcessingMove,
                 isProcessingFinish, winnerBanner, boardPoints, asyncOps, nextId,
                 ledgerVars, nReplays, nRolls>>

\* ------------------------------------------------- messageHandler branches
\* the frame the engine handles next, and its connection's queue without it
Incoming(p) == Head(inbox[p])
Rest(p) == [inbox EXCEPT ![p] = Tail(@)]

OnDiceRolled(p) ==
  /\ inbox[p] /= <<>>
  /\ Incoming(p).type = "dice_rolled" /\ Incoming(p).gamePubkey = S1
  /\ dice' = IF Incoming(p).dice THEN Set(dice, p, TRUE) ELSE dice
  /\ Deliver(Rest(p))
  /\ NoRender
  /\ UNCHANGED <<fixedVars, moves, loadPending, selectedCell, isProcessingMove,
                 isProcessingFinish, winnerBanner, boardPoints, asyncOps, nextId,
                 ledgerVars, nReplays, nRolls>>

OnMove(p) ==
  /\ inbox[p] /= <<>>
  /\ Incoming(p).type = "move" /\ Incoming(p).gamePubkey = S1
  /\ boardPoints' = IF Incoming(p).player /= p /\ Incoming(p).boardPoints /= NoBoard
                    THEN Set(boardPoints, p, Incoming(p).boardPoints)
                    ELSE boardPoints
  /\ Deliver(Rest(p))
  /\ NoRender
  /\ UNCHANGED <<fixedVars, moves, loadPending, dice, selectedCell, isProcessingMove,
                 isProcessingFinish, winnerBanner, asyncOps, nextId,
                 ledgerVars, nReplays, nRolls>>

\* no check of gamePubkey or of the sender: the proposer stores its own echo too
OnMoveRequest(p) ==
  /\ inbox[p] /= <<>>
  /\ Incoming(p).type = "move_request"
  /\ LET m == Incoming(p)
         ok == m.boardPoints /= NoBoard /\ m.dice /\ m.transactionData /= NoTx
     IN Render(p, Rest(p), currentTurn[p], gameInfo[p], isMyTurn[p],
               IF ok THEN <<[boardPoints |-> m.boardPoints, dice |-> m.dice,
                             moveIndex |-> m.moveIndex,
                             transactionData |-> m.transactionData]>>
                     ELSE pendingMove[p],
               pendingFinish[p])
  /\ UNCHANGED <<fixedVars, moves, loadPending, dice, selectedCell, isProcessingMove,
                 isProcessingFinish, winnerBanner, boardPoints, asyncOps, nextId,
                 ledgerVars, nReplays, nRolls>>

\* a call of sendRawTransaction by engine p
Submission(p, tx, path, m) ==
  [n |-> Len(ledgerLog) + 1, by |-> p, tx |-> tx, path |-> path,
   boardPoints |-> m.boardPoints, turn |-> currentTurn[p], winnerPubkey |-> m.winnerPubkey]

\* move_signed with a transaction: submitSignedTransactionToBlockchain up to the await
\* of sendRawTransaction.  Frames of the signer itself are ignored.
OnMoveSigned(p) ==
  /\ inbox[p] /= <<>>
  /\ Incoming(p).type = "move_signed"
  /\ LET m == Incoming(p)
         tx == TransactionFrom(m.transactionData)
         hasTx == m.transactionData /= NoTx /\ m.boardPoints /= NoBoard /\ m.dice
     IN /\ (m.playerPubkey /= p /\ ~hasTx) => hPendingMove[p] = <<>>
        /\ IF m.playerPubkey /= p /\ hasTx /\ SignaturesLength(tx) >= 2
           THEN /\ ledgerLog' = Append(ledgerLog, Submission(p, tx, "move", m))
                /\ inFlight' = inFlight \cup {Submission(p, tx, "move", m)}
           ELSE UNCHANGED <<ledgerLog, inFlight>>
  /\ Deliver(Rest(p))
  /\ NoRender
  /\ UNCHANGED <<fixedVars, moves, loadPending, dice, selectedCell, isProcessingMove,
                 isProcessingFinish, winnerBanner, boardPoints, asyncOps, nextId,
                 processed, ledgerFinished, announced, proposed, lastTurnChanged,
                 nReplays, nRolls>>

\* move_signed without a transaction while the handler's closure holds a pendingMove:
\* submitMoveToBlockchain (fallback), which flips the turn locally
OnMoveSignedFallback(p) ==
  /\ inbox[p] /= <<>>
  /\ Incoming(p).type = "move_signed"
  /\ Incoming(p).playerPubkey /= p
  /\ ~(Incoming(p).transactionData /= NoTx /\ Incoming(p).boardPoints /= NoBoard
       /\ Incoming(p).dice)
  /\ hPendingMove[p] /= <<>>
  /\ boardPoints' = Set(boardPoints, p, hPendingMove[p][1].boardPoints)
  /\ dice' = Set(dice, p, hPendingMove[p][1].dice)
  /\ selectedCell' = Set(selectedCell, p, FALSE)
  /\ Render(p, Rest(p), IF currentTurn[p] = 1 THEN 2 ELSE 1, gameInfo[p], ~isMyTurn[p],
            <<>>, pendingFinish[p])
  /\ UNCHANGED <<fixedVars, moves, loadPending, isProcessingMove, isProcessingFinish,
                 winnerBanner, asyncOps, nextId, ledgerVars, nReplays, nRolls>>

\* isMyTurnNow of the turn_changed branch
IsMyTurnNow(p, newTurn) ==
  (newTurn = 1 /\ p = Player1) \/ (newTurn = 2 /\ p /= Player1)

OnTurnChanged(p) ==
  /\ inbox[p] /= <<>>
  /\ Incoming(p).type = "turn_changed"
  /\ LET newTurn == Incoming(p).newTurn
     IN IF newTurn /= 0
        THEN /\ Render(p, Rest(p), newTurn, gameInfo[p],
                       IF gameInfo[p] THEN IsMyTurnNow(p, newTurn) ELSE isMyTurn[p],
                       <<>>, pendingFinish[p])
             /\ dice' = Set(dice, p, FALSE)
             /\ selectedCell' = Set(selectedCell, p, FALSE)
             /\ isProcessingMove' = Set(isProcessingMove, p, FALSE)
             /\ lastTurnChanged' = Set(lastTurnChanged, p, newTurn)
        ELSE /\ Deliver(Rest(p))
             /\ NoRender
             /\ UNCHANGED <<dice, selectedCell, isProcessingMove, lastTurnChanged>>
  /\ UNCHANGED <<fixedVars, moves, loadPending, isProcessingFinish, winnerBanner,
                 boardPoints, asyncOps, nextId, inFlight, ledgerLog, processed,
                 ledgerFinished, announced, proposed, nReplays, nRolls>>

OnFinishRequest(p) ==
  /\ inbox[p] /= <<>>
  /\ Incoming(p).type = "finish_request" /\ Incoming(p).gamePubkey = S1
  /\ LET m == Incoming(p)
     IN Render(p, Rest(p), currentTurn[p], gameInfo[p], isMyTurn[p], pendingMove[p],
               IF m.transactionData /= NoTx /\ m.winnerPubkey /= 0
               THEN <<[winnerPubkey |-> m.winnerPubkey,
                       transactionData |-> m.transactionData]>>
               ELSE pendingFinish[p])
  /\ UNCHANGED <<fixedVars, moves, loadPending, dice, selectedCell, isProcessingMove,
                 isProcessingFinish, winnerBanner, boardPoints, asyncOps, nextId,
                 ledgerVars, nReplays, nRolls>>

\* finish_signed: submitFinishTransaction up to the await of sendRawTransaction.
\* Frames of the signer itself are ignored.
OnFinishSigned(p) ==
  /\ inbox[p] /= <<>>
  /\ Incoming(p).type = "finish_signed" /\ Incoming(p).gamePubkey = S1
  /\ LET m == Incoming(p)
         tx == TransactionFrom(m.transactionData)
     IN IF m.playerPubkey /= p /\ m.transactionData /= NoTx /\ m.winnerPubkey /= 0
        THEN /\ ledgerLog' = Append(ledgerLog, Submission(p, tx, "finish", m))
             /\ inFlight' = inFlight \cup {Submission(p, tx, "finish", m)}
        ELSE UNCHANGED <<ledgerLog, inFlight>>
  /\ Deliver(Rest(p))
  /\ NoRender
  /\ UNCHANGED <<fixedVars, moves, loadPending, dice, selectedCell, isProcessingMove,
                 isProcessingFinish, winnerBanner, boardPoints, asyncOps, nextId,
                 processed, ledgerFinished, announced, proposed, lastTurnChanged,
                 nReplays, nRolls>>

OnGameFinished(p) ==
  /\ inbox[p] /= <<>>
  /\ Incoming(p).type = "game_finished" /\ Incoming(p).gamePubkey = S1
  /\ winnerBanner' = Set(winnerBanner, p, Incoming(p).winnerPubkey)
  /\ Render(p, Rest(p), currentTurn[p], gameInfo[p], FALSE, pendingMove[p],
            pendingFinish[p])
  /\ UNCHANGED <<fixedVars, moves, loadPending, dice, selectedCell, isProcessingMove,
                 isProcessingFinish, boardPoints, asyncOps, nextId, ledgerVars,
                 nReplays, nRolls>>

\* ------------------------------------------------- the ledger's answers
\* sendRawTransaction and confirmTransaction of a move succeeded: the rest of
\* a submit function that keeps the pending move until the turn is announced
PendingMoveKept(pm) == pm

\* submitSignedTransactionToBlockchain after the confirmation: setPendingMove(null)
PendingMoveAfterSubmission(pm) == <<>>

\* submitSignedTransactionToBlockchain.  newTurn is computed from the currentTurn the
\* callback captured when the handler called it.
LedgerConfirmMove(s) ==
  /\ s \in inFlight /\ s.path = "move"
  /\ LedgerAccepts(s.tx)
  /\ inFlight' = inFlight \ {s}
  /\ processed' = processed \cup {s.tx.id}
  /\ boardPoints' = Set(boardPoints, s.by, s.boardPoints)
  /\ dice' = Set(dice, s.by, TRUE)
  /\ selectedCell' = Set(selectedCell, s.by, FALSE)
  /\ LET newTurn == IF s.turn = 1 THEN 2 ELSE 1
     IN /\ Render(s.by,
                  ClientSend(inbox, s.by,
                             [Msg("turn_completed", S1, s.by) EXCEPT !.newTurn = newTurn]),
                  currentTurn[s.by], gameInfo[s.by], isMyTurn[s.by],
                  PendingMoveAfterSubmission(pendingMove[s.by]), pendingFinish[s.by])
        /\ announced' = IF s.by \in open
                        THEN announced \cup
                               {[by |-> s.by, newTurn |-> newTurn, id |-> s.tx.id]}
                        ELSE announced
  /\ inactive' = FALSE
  /\ UNCHANGED <<games, open, lastFrame, relaySeq, lastPost, socketVars, moves, loadPending,
                 isProcessingMove, isProcessingFinish, winnerBanner, asyncOps, nextId,
                 ledgerLog, ledgerFinished, proposed, lastTurnChanged, nReplays, nRolls>>

\* sendRawTransaction and confirmTransaction of a finish succeeded: the rest of
\* submitFinishTransaction
LedgerConfirmFinish(s) ==
  /\ s \in inFlight /\ s.path = "finish"
  /\ LedgerAccepts(s.tx)
  /\ inFlight' = inFlight \ {s}
  /\ ledgerFinished' = TRUE
  /\ winnerBanner' = Set(winnerBanner, s.by, s.winnerPubkey)
  /\ Render(s.by,
            SendFinishFrame(inbox, s.by,
                            [Msg("game_finished", S1, 0) EXCEPT
                               !.winnerPubkey = s.winnerPubkey]),
            currentTurn[s.by], gameInfo[s.by], FALSE, pendingMove[s.by],
            pendingFinish[s.by])
  /\ inactive' = FALSE
  /\ UNCHANGED <<games, open, lastFrame, relaySeq, lastPost, socketVars, moves, loadPending, dice,
                 selectedCell, isProcessingMove, isProcessingFinish, boardPoints, asyncOps,
                 nextId, ledgerLog, processed, announced, proposed, lastTurnChanged,
                 nReplays, nRolls>>

\* a submit function that announces the turn although the ledger refused
LedgerRejectAnnounces(s) ==
  /\ s \in inFlight
  /\ ~LedgerAccepts(s.tx)
  /\ inFlight' = inFlight \ {s}
  /\ announced' = announced \cup {[by |-> s.by, newTurn |-> 2, id |-> s.tx.id]}
  /\ UNCHANGED <<relayVars, engineVars, ledgerLog, processed, ledgerFinished,
                 proposed, lastTurnChanged, otherVars>>

\* the ledger refused the transaction: the submit function throws, the caller logs
LedgerReject(s) ==
  /\ s \in inFlight
  /\ ~LedgerAccepts(s.tx)
  /\ inFlight' = inFlight \ {s}
  /\ UNCHANGED <<relayVars, engineVars, ledgerLog, processed, ledgerFinished,
                 announced, proposed, lastTurnChanged, otherVars>>

\* ------------------------------------------------------ the third client
\* A client subscribed to the game sends a frame it received once more.
Replay(m) ==
  /\ m \in observed
  /\ 3 \in open
  /\ nextId + nReplays < MaxCalls
  /\ nReplays' = nReplays + 1
  /\ Deliver(ClientSend(inbox, 3, m))
  /\ NoRender
  /\ UNCHANGED <<fixedVars, moves, loadPending, dice, selectedCell, isProcessingMove,
                 isProcessingFinish, winnerBanner, boardPoints, asyncOps, nextId,
                 ledgerVars, nRolls>>

\* A client subscribed to the game sends a move_signed frame without a transaction.
BareMoveSigned ==
  /\ 3 \in open
  /\ nextId + nReplays < MaxCalls
  /\ nReplays' = nReplays + 1
  /\ Deliver(ClientSend(inbox, 3, Msg("move_signed", S1, 3)))
  /\ NoRender
  /\ UNCHANGED <<fixedVars, moves, loadPending, dice, selectedCell, isProcessingMove,
                 isProcessingFinish, winnerBanner, boardPoints, asyncOps, nextId,
                 ledgerVars, nRolls>>

\* ------------------------------------------------------ the whole system
\* Both players opened the game screen of S1 and subscribed; a third client is
\* subscribed to S1 as well.
Init ==
  /\ games = {[game_pubkey |-> S1, player1 |-> 1, player2 |-> 2, status |-> "waiting"]}
  /\ moves = 0
  /\ open = Conns
  /\ clientSubscriptions = [c \in Conns |-> [gamePubkey |-> S1, playerPubkey |-> c]]
  /\ inbox = [c \in Conns |-> <<>>]
  /\ lastFrame = [from |-> 0, msg |-> Msg("none", "", 0)]
  /\ relaySeq = 0
  /\ EngineInit

Next ==
  \/ \E p \in Players : LoadGameInfo(p)
  \/ \E p \in Players : LoadGameInfoFail(p)
  \/ \E p \in Players : RollDice(p)
  \/ \E p \in Players : handleCellClick(p)
  \/ \E p \in Players : ConfirmMoveStart(p)
  \/ \E op \in asyncOps : ConfirmMoveSend(op)
  \/ \E op \in asyncOps : ConfirmMoveLogged(op)
  \/ \E op \in asyncOps : ConfirmMoveCatch(op)
  \/ \E p \in Players : ConfirmWinStart(p)
  \/ \E op \in asyncOps : ConfirmWinSend(op)
  \/ \E op \in asyncOps : ConfirmWinCatch(op)
  \/ \E p \in Players : handlePendingMoveSignature(p)
  \/ \E p \in Players : OnDiceRolled(p)
  \/ \E p \in Players : OnMove(p)
  \/ \E p \in Players : OnMoveRequest(p)
  \/ \E p \in Players : OnMoveSigned(p)
  \/ \E p \in Players : OnMoveSignedFallback(p)
  \/ \E p \in Players : OnTurnChanged(p)
  \/ \E p \in Players : OnFinishRequest(p)
  \/ \E p \in Players : OnFinishSigned(p)
  \/ \E p \in Players : OnGameFinished(p)
  \/ \E s \in inFlight : LedgerConfirmMove(s)
  \/ \E s \in inFlight : LedgerConfirmFinish(s)
  \/ \E s \in inFlight : LedgerReject(s)
  \/ \E m \in observed : Replay(m)
  \/ BareMoveSigned

Spec == Init /\ [][Next]_vars

\* ------------------------------- submissions the ledger processes while awaited
\* The ledger processes a move: from here confirmTransaction can return, which the
\* submitting engine awaits.
LedgerProcessesMove(s) ==
  /\ s \in inFlight /\ s.path = "move"
  /\ LedgerAccepts(s.tx)
  /\ processed' = processed \cup {s.tx.id}
  /\ inactive' = FALSE
  /\ UNCHANGED <<relayVars, engineVars, inFlight, ledgerLog, ledgerFinished, announced,
                 proposed, lastTurnChanged, observed, nReplays, nRolls, socketVars,
                 lastPost>>

\* submitSignedTransactionToBlockchain resumes after await confirmTransaction: local
\* reset, sendTurnCompleted with the newTurn of the captured currentTurn
ConfirmTransactionReturns(s) ==
  /\ s \in inFlight /\ s.path = "move"
  /\ s.tx.id \in processed
  /\ inFlight' = inFlight \ {s}
  /\ boardPoints' = Set(boardPoints, s.by, s.boardPoints)
  /\ dice' = Set(dice, s.by, TRUE)
  /\ selectedCell' = Set(selectedCell, s.by, FALSE)
  /\ LET newTurn == IF s.turn = 1 THEN 2 ELSE 1
     IN /\ Render(s.by,
                  ClientSend(inbox, s.by,
                             [Msg("turn_completed", S1, s.by) EXCEPT !.newTurn = newTurn]),
                  currentTurn[s.by], gameInfo[s.by], isMyTurn[s.by],
                  PendingMoveAfterSubmission(pendingMove[s.by]), pendingFinish[s.by])
        /\ announced' = IF s.by \in open
                        THEN announced \cup
                               {[by |-> s.by, newTurn |-> newTurn, id |-> s.tx.id]}
                        ELSE announced
  /\ UNCHANGED <<fixedVars, moves, loadPending, isProcessingMove, isProcessingFinish,
                 winnerBanner, asyncOps, nextId, ledgerLog, processed, ledgerFinished,
                 proposed, lastTurnChanged, nReplays, nRolls>>

\* the two engines with the ledger's processing of a move apart from the return of
\* the confirmTransaction call that waits for it
ANext ==
  \/ \E p \in Players : LoadGameInfo(p)
  \/ \E p \in Players : RollDice(p)
  \/ \E p \in Players : handleCellClick(p)
  \/ \E p \in Players : ConfirmMoveStart(p)
  \/ \E op \in asyncOps : ConfirmMoveSend(op)
  \/ \E op \in asyncOps : ConfirmMoveLogged(op)
  \/ \E p \in Players : ConfirmWinStart(p)
  \/ \E op \in asyncOps : ConfirmWinSend(op)
  \/ \E p \in Players : handlePendingMoveSignature(p)
  \/ \E p \in Players : OnDiceRolled(p)
  \/ \E p \in Players : OnMove(p)
  \/ \E p \in Players : OnMoveRequest(p)
  \/ \E p \in Players : OnMoveSigned(p)
  \/ \E p \in Players : OnTurnChanged(p)
  \/ \E p \in Players : OnFinishRequest(p)
  \/ \E p \in Players : OnFinishSigned(p)
  \/ \E p \in Players : OnGameFinished(p)
  \/ \E s \in inFlight : LedgerProcessesMove(s)
  \/ \E s \in inFlight : ConfirmTransactionReturns(s)
  \/ \E s \in inFlight : LedgerConfirmFinish(s)

AwaitSpec == Init /\ [][ANext]_vars

\* The actions GameScreen p offers: the buttons of the control row and of the two
\* "to sign" panels.
Buttons(p) ==
  (IF ~dice[p] /\ isMyTurn[p] THEN {"rollDice"} ELSE {})
    \cup (IF dice[p] /\ selectedCell[p] /\ isMyTurn[p] THEN {"confirmMove"} ELSE {})
    \cup (IF isMyTurn[p] THEN {"confirmWin"} ELSE {})
    \cup (IF pendingMove[p] /= <<>> /\ ~isMyTurn[p]
          THEN {"handlePendingMoveSignature"} ELSE {})
    \cup (IF pendingFinish[p] /= <<>> /\ ~isMyTurn[p]
          THEN {"handlePendingFinishSignature"} ELSE {})

\* ------------------------------------------- connection loss and the ledger clock
\* WebSocketClient fields
maxReconnectAttempts == 5
reconnectDelay == 1000

MaxLosses == 6   \* sockets closed or failed, over both players (BackoffSpec)
MaxDrops  == 1   \* sockets closed, over both players (LinkSpec)

\* attemptReconnect: const delay = this.reconnectDelay * this.reconnectAttempts
ReconnectDelay(attempt) == reconnectDelay * attempt

\* attemptReconnect without the test of maxReconnectAttempts
AttemptReconnectUncapped(p) ==
  LET delay == ReconnectDelay(reconnectAttempts[p] + 1)
  IN /\ reconnectAttempts' = Set(reconnectAttempts, p, reconnectAttempts[p] + 1)
     /\ reconnectTimer' = Set(reconnectTimer, p, reconnectTimer[p] \cup {delay})
     /\ delays' = Set(delays, p, Append(delays[p], delay))

\* attemptReconnect
AttemptReconnect(p) ==
  IF reconnectAttempts[p] >= maxReconnectAttempts
  THEN UNCHANGED <<reconnectAttempts, reconnectTimer, delays>>
  ELSE LET delay == ReconnectDelay(reconnectAttempts[p] + 1)
       IN /\ reconnectAttempts' = Set(reconnectAttempts, p, reconnectAttempts[p] + 1)
          /\ reconnectTimer' = Set(reconnectTimer, p, reconnectTimer[p] \cup {delay})
          /\ delays' = Set(delays, p, Append(delays[p], delay))

\* The open socket of player p closes: the relay forgets its subscription (ws.on
\* "close"), frames on their way to it are lost, the client's onclose runs.
SocketClose(p) ==
  /\ p \in open
  /\ nLosses < MaxLosses
  /\ nLosses' = nLosses + 1
  /\ open' = open \ {p}
  /\ clientSubscriptions' = RelayOnClose(clientSubscriptions, p)
  /\ inbox' = [inbox EXCEPT ![p] = <<>>]
  /\ AttemptReconnect(p)
  /\ UNCHANGED <<games, moves, lastFrame, relaySeq, engineVars, ledgerVars,
                 observed, nReplays, nRolls, inactive, lastPost, disconnected>>

\* the setTimeout callback of attemptReconnect: connect()
ReconnectFires(p, d) ==
  /\ d \in reconnectTimer[p]
  /\ reconnectTimer' = Set(reconnectTimer, p, reconnectTimer[p] \ {d})
  /\ connecting' = IF p \in open THEN connecting ELSE Set(connecting, p, TRUE)
  /\ UNCHANGED <<relayVars, gameInfo, loadPending, currentTurn, isMyTurn, dice,
                 selectedCell, isProcessingMove, isProcessingFinish, pendingMove,
                 pendingFinish, winnerBanner, boardPoints, hPendingMove, asyncOps, nextId,
                 ledgerVars, observed, nReplays, nRolls, lastPost, reconnectAttempts, delays,
                 nLosses, inactive, disconnected>>

\* ws.onopen of a new socket: the relay has a new connection without a subscription
SocketOpen(p) ==
  /\ connecting[p]
  /\ p \notin open
  /\ connecting' = Set(connecting, p, FALSE)
  /\ open' = open \cup {p}
  /\ reconnectAttempts' = Set(reconnectAttempts, p, 0)
  /\ delays' = Set(delays, p, <<>>)
  /\ UNCHANGED <<games, moves, clientSubscriptions, inbox, lastFrame, relaySeq,
                 gameInfo, loadPending, currentTurn, isMyTurn, dice,
                 selectedCell, isProcessingMove, isProcessingFinish, pendingMove,
                 pendingFinish, winnerBanner, boardPoints, hPendingMove, asyncOps, nextId,
                 ledgerVars, observed, nReplays, nRolls, lastPost, reconnectTimer, nLosses,
                 inactive, disconnected>>

\* the new socket fails to open: its onclose runs
SocketFail(p) ==
  /\ connecting[p]
  /\ nLosses < MaxLosses
  /\ nLosses' = nLosses + 1
  /\ connecting' = Set(connecting, p, FALSE)
  /\ AttemptReconnect(p)
  /\ UNCHANGED <<relayVars, gameInfo, loadPending, currentTurn, isMyTurn, dice,
                 selectedCell, isProcessingMove, isProcessingFinish, pendingMove,
                 pendingFinish, winnerBanner, boardPoints, hPendingMove, asyncOps, nextId,
                 ledgerVars, observed, nReplays, nRolls, inactive, lastPost,
                 disconnected>>

\* disconnect(): ws.close() on the current socket, this.ws = null, the handlers are
\* dropped; the socket's onclose stays installed and runs when the close event
\* arrives (SocketClose, or SocketFail for a socket that was still connecting).
\* GameScreen never calls disconnect(), so the flag stays FALSE where the screens run.
Disconnect(p) ==
  /\ ~disconnected[p]
  /\ p \in open \/ connecting[p]
  /\ disconnected' = Set(disconnected, p, TRUE)
  /\ UNCHANGED <<relayVars, engineVars, ledgerVars, observed, nReplays, nRolls,
                 reconnectAttempts, reconnectTimer, delays, nLosses, inactive, lastPost>>

\* Slots pass on the ledger without a transaction of this game until the timeout
\* the scripts wait for before force_refund is over.
TimeoutElapses ==
  /\ ~inactive
  /\ inactive' = TRUE
  /\ UNCHANGED <<relayVars, engineVars, ledgerVars, observed, nReplays, nRolls,
                 socketVars, lastPost>>

\* the two engines exchanging moves over connections that can be lost
LNext ==
  \/ \E p \in Players : LoadGameInfo(p)
  \/ \E p \in Players : RollDice(p)
  \/ \E p \in Players : handleCellClick(p)
  \/ \E p \in Players : ConfirmMoveStart(p)
  \/ \E op \in asyncOps : ConfirmMoveSend(op)
  \/ \E op \in asyncOps : ConfirmMoveLogged(op)
  \/ \E p \in Players : handlePendingMoveSignature(p)
  \/ \E p \in Players : OnDiceRolled(p)
  \/ \E p \in Players : OnMove(p)
  \/ \E p \in Players : OnMoveRequest(p)
  \/ \E p \in Players : OnMoveSigned(p)
  \/ \E p \in Players : OnTurnChanged(p)
  \/ \E s \in inFlight : LedgerConfirmMove(s)
  \/ \E p \in Players : nLosses < MaxDrops /\ SocketClose(p)
  \/ \E p \in Players : \E d \in reconnectTimer[p] : ReconnectFires(p, d)
  \/ \E p \in Players : SocketOpen(p)
  \/ TimeoutElapses

LinkSpec == Init /\ [][LNext]_vars

\* the WebSocketClients on their own, with sockets that fail to open
BNext ==
  \/ \E p \in Players : SocketClose(p)
  \/ \E p \in Players : \E d \in reconnectTimer[p] : ReconnectFires(p, d)
  \/ \E p \in Players : SocketOpen(p)
  \/ \E p \in Players : SocketFail(p)
  \/ \E p \in Players : Disconnect(p)

BackoffSpec == Init /\ [][BNext]_vars

\* =================================================================== claims
\* ------------------------------------------------------ relay (RelaySpec)
\* connection c is open and bound to game g
BoundTo(c, g) ==
  /\ c \in open
  /\ c \in DOMAIN clientSubscriptions
  /\ clientSubscriptions[c].gamePubkey = g

\* this step is the relay handling one frame of a client
Handled == relaySeq' = relaySeq + 1
Frame == lastFrame'.msg
Sender == lastFrame'.from

\* what the relay forwards for frame m
Forwarded(m) ==
  IF m.type = "turn_completed"
  THEN [Msg("turn_changed", m.gamePubkey, 0) EXCEPT !.newTurn = m.newTurn]
  ELSE m

\* the relay routes frame m: the kinds it looks up in the games table need the game
Routed(m) ==
  \/ m.type \in {"finish_request", "turn_completed", "game_finished"}
  \/ \E r \in games : r.game_pubkey = m.gamePubkey

\* C2 as stated: every protocol message with gamePubkey S is delivered to every open
\* connection bound to S and to no other connection.
C2_DeliveredToEveryBound ==
  [][(Handled /\ Frame.type \in ProtocolKinds) =>
       \A c \in Conns :
         inbox'[c] = IF BoundTo(c, Frame.gamePubkey)
                     THEN Append(inbox[c], Forwarded(Frame))
                     ELSE inbox[c]]_vars

\* C2 as the relay does it: a protocol message with gamePubkey S never reaches a
\* connection that is not open and bound to S; it reaches every open connection bound
\* to S when the relay routes it (finish_request, turn_completed as turn_changed,
\* game_finished always; move_request, move_signed, finish_signed when S is a
\* registered game); otherwise nobody receives it and the sender gets "Game not found".
C2_Delivery ==
  [][(Handled /\ Frame.type \in ProtocolKinds) =>
       IF Routed(Frame)
       THEN \A c \in Conns :
              inbox'[c] = IF BoundTo(c, Frame.gamePubkey)
                          THEN Append(inbox[c], Forwarded(Frame))
                          ELSE inbox[c]
       ELSE \A c \in Conns :
              inbox'[c] = IF c = Sender
                          THEN Append(inbox[c], ErrorMsg("Game not found"))
                          ELSE inbox[c]]_vars

\* a move_request for S1 was handled; a connection bound to S1 holds it and a
\* connection bound to S2 holds nothing
C2_Witness ==
  /\ relaySeq = 1
  /\ lastFrame.msg.type = "move_request" /\ lastFrame.msg.gamePubkey = S1
  /\ \E c \in Conns : BoundTo(c, S1) /\ inbox[c] = <<lastFrame.msg>>
  /\ \E d \in Conns : BoundTo(d, "S2") /\ inbox[d] = <<>>

\* an unregistered game: the move_signed frame reached nobody, the sender holds the error
C2_WitnessUnregistered ==
  /\ relaySeq = 1
  /\ lastFrame.msg.type = "move_signed" /\ lastFrame.msg.gamePubkey = "S2"
  /\ ~Routed(lastFrame.msg)
  /\ \E c \in Conns : c /= lastFrame.from /\ BoundTo(c, "S2") /\ inbox[c] = <<>>
  /\ inbox[lastFrame.from] = <<ErrorMsg("Game not found")>>

C11_UnparseableDropped ==
  [][(Handled /\ Frame = Unparseable) =>
       /\ \A c \in Conns :
            inbox'[c] = IF c = Sender
                        THEN Append(inbox[c], ErrorMsg("Failed to process message"))
                        ELSE inbox[c]
       /\ clientSubscriptions' = clientSubscriptions]_vars

\* connection 1 sent unparseable data and holds the error reply; another connection
\* bound to the same game holds nothing
C11_Witness ==
  /\ relaySeq = 1
  /\ lastFrame.from = 1 /\ lastFrame.msg = Unparseable
  /\ inbox[1] = <<ErrorMsg("Failed to process message")>>
  /\ BoundTo(1, S1) /\ BoundTo(2, S1) /\ inbox[2] = <<>>

\* C12: a protocol message of any kind that names an unregistered game is forwarded to
\* nobody, and the sending connection alone receives an error reply.
C12_UnregisteredRefused ==
  [][(Handled /\ Frame.type \in ProtocolKinds
        /\ ~(\E r \in games : r.game_pubkey = Frame.gamePubkey)) =>
       \A c \in Conns :
         IF c = Sender
         THEN /\ Len(inbox'[c]) = Len(inbox[c]) + 1
              /\ inbox'[c][Len(inbox'[c])].type = "error"
              /\ SubSeq(inbox'[c], 1, Len(inbox[c])) = inbox[c]
         ELSE inbox'[c] = inbox[c]]_vars

\* C13: a protocol message of a connection that is not bound to the game the message
\* names (not subscribed at all, or subscribed to another game) is delivered to nobody;
\* at most the sender receives an error reply.
C13_OnlyBoundSendersRouted ==
  [][(Handled /\ Frame.type \in ProtocolKinds /\ ~BoundTo(Sender, Frame.gamePubkey)) =>
       \A c \in Conns :
         \/ inbox'[c] = inbox[c]
         \/ /\ c = Sender
            /\ \E text \in {"Game not found", "Failed to process message"} :
                 inbox'[c] = Append(inbox[c], ErrorMsg(text))]_vars

\* C21: a subscribe that names a game and a player makes that pair the one binding of
\* the sending connection, replacing an earlier one; a subscribe without gamePubkey or
\* playerPubkey changes no binding and is answered with an error to the sender alone.
\* Bindings of other connections never change.
C21_OneBindingPerConnection ==
  [][(Handled /\ Frame.type = "subscribe") =>
       IF Frame.gamePubkey /= "" /\ Frame.playerPubkey /= 0
       THEN /\ DOMAIN clientSubscriptions' = DOMAIN clientSubscriptions \cup {Sender}
            /\ clientSubscriptions'[Sender] =
                 [gamePubkey |-> Frame.gamePubkey, playerPubkey |-> Frame.playerPubkey]
            /\ \A d \in DOMAIN clientSubscriptions \ {Sender} :
                 clientSubscriptions'[d] = clientSubscriptions[d]
       ELSE /\ clientSubscriptions' = clientSubscriptions
            /\ \A c \in Conns :
                 inbox'[c] = IF c = Sender
                             THEN Append(inbox[c],
                                         ErrorMsg("Missing gamePubkey or playerPubkey"))
                             ELSE inbox[c]]_vars

\* connection 1, bound to S1, sent a subscribe without gamePubkey: it got the error
\* and is still bound to S1
C21_Witness ==
  /\ relaySeq = 1
  /\ lastFrame.from = 1 /\ lastFrame.msg = Msg("subscribe", "", 1)
  /\ inbox[1] = <<ErrorMsg("Missing gamePubkey or playerPubkey")>>
  /\ BoundTo(1, S1)
  /\ inbox[2] = <<>> /\ inbox[3] = <<>>

\* connection c closes in this step
Closes(c) == c \in open /\ c \notin open'

\* C22: when a connection closes its binding is removed and the bindings of the other
\* connections stay as they are (nothing changes when it had none); a connection
\* without a binding is sent nothing but the answers to its own frames.
C22_CloseUnbinds ==
  [][/\ \A c \in Conns : Closes(c) =>
          /\ DOMAIN clientSubscriptions' = DOMAIN clientSubscriptions \ {c}
          /\ \A d \in DOMAIN clientSubscriptions' :
               clientSubscriptions'[d] = clientSubscriptions[d]
     /\ \A c \in Conns \ DOMAIN clientSubscriptions :
          \/ inbox'[c] = inbox[c]
          \/ inbox'[c] = <<>>
          \/ inbox[c] /= <<>> /\ inbox'[c] = Tail(inbox[c])
          \/ /\ Handled /\ Sender = c
             /\ \E m \in {inbox'[c][i] : i \in 1..Len(inbox'[c])} :
                  /\ m.type \in {"error", "subscribed"}
                  /\ inbox'[c] = Append(inbox[c], m)]_vars

\* connection 1 closed: it has no binding and holds no frame, while 2 and 3 are
\* bound to S1 and hold the move_request the relay fanned out
C22_Witness ==
  /\ relaySeq = 1
  /\ lastFrame.msg.type = "move_request" /\ lastFrame.msg.gamePubkey = S1
  /\ 1 \notin open /\ 1 \notin DOMAIN clientSubscriptions
  /\ inbox[1] = <<>>
  /\ BoundTo(2, S1) /\ Len(inbox[2]) = 1
  /\ BoundTo(3, S1) /\ Len(inbox[3]) = 1

\* the server answered a POST .../move in this step
Posted == lastPost'.seq = lastPost.seq + 1

\* C16: a POST .../move that carries moveIndex, player, boardPoints and dice sends one
\* "move" frame to every open connection subscribed to the game and to no other; one
\* that lacks a field is answered 400, stores nothing and sends nothing.
C16_MoveLogged ==
  [][Posted =>
       LET b == lastPost'.body
           g == lastPost'.gamePubkey
           complete == b.moveIndex /= NoIndex /\ b.player /= 0
                         /\ b.boardPoints /= NoBoard /\ b.dice
       IN IF complete
          THEN /\ lastPost'.status = 200
               /\ g = S1 => moves' = moves + 1
               /\ \A c \in Conns :
                    IF c \in open /\ BoundTo(c, g)
                    THEN /\ Len(inbox'[c]) = Len(inbox[c]) + 1
                         /\ SubSeq(inbox'[c], 1, Len(inbox[c])) = inbox[c]
                         /\ inbox'[c][Len(inbox'[c])].type = "move"
                         /\ inbox'[c][Len(inbox'[c])].moveIndex = b.moveIndex
                    ELSE inbox'[c] = inbox[c]
          ELSE /\ lastPost'.status = 400
               /\ moves' = moves
               /\ inbox' = inbox]_vars

\* ------------------------------------------------- engines and ledger (Spec)
\* the calls of sendRawTransaction so far
Submissions == {ledgerLog[i] : i \in 1..Len(ledgerLog)}

\* the turn number of participant p: player1 is 1, player2 is 2
TurnOf(p) == IF p = 1 THEN 1 ELSE 2

\* C1: every transaction a client hands to the ledger carries the signatures of both
\* player1 and player2 at the moment it is sent.
C1_BothSignatures ==
  \A e \in Submissions : e.tx.sigs = Players

\* C3: an engine that already submitted the transaction of a move_signed frame does not
\* call the ledger submission again when the same frame arrives a second time.
C3_NoSecondSubmission ==
  \A i, j \in 1..Len(ledgerLog) :
    (i < j /\ ledgerLog[i].by = ledgerLog[j].by /\ ledgerLog[i].path = "move"
       /\ ledgerLog[j].path = "move")
      => ledgerLog[i].tx /= ledgerLog[j].tx

\* the proposals engine p sent and has not submitted yet
Outstanding(p) ==
  {q \in proposed : q.by = p /\ \A e \in Submissions : ~(e.by = p /\ e.tx.id = q.id)}

\* C4: an engine holds at most one outstanding proposal: while a move_request or
\* finish_request it sent is not yet submitted, confirmMove and confirmWin send nothing.
C4_AtMostOneOutstanding ==
  \A p \in Players : Cardinality(Outstanding(p)) <= 1

\* C5: every turn announcement after a confirmed move names the participant other than
\* the one who submitted that move.
C5_AnnouncedTurnIsTheOther ==
  \A a \in announced : a.newTurn /= TurnOf(a.by)

\* C6: after an engine handled a turn_changed, its currentTurn / isMyTurn equal the newTurn
\* of the last turn_changed it handled, also once its game info is loaded (and until the
\* game is over).
C6_TurnIsLastAnnounced ==
  \A p \in Players :
    (lastTurnChanged[p] /= 0 /\ gameInfo[p] /\ winnerBanner[p] = 0) =>
      /\ currentTurn[p] = lastTurnChanged[p]
      /\ isMyTurn[p] = (lastTurnChanged[p] = TurnOf(p))

\* C8: once both engines handled the turn announcement of a confirmed move and loaded
\* their game info, in either order, and nothing is in flight (no frame of a third
\* client was involved), exactly one engine has isMyTurn = true.
C8_OneTurnOwner ==
  (/\ nReplays = 0
   /\ \A p \in Players : lastTurnChanged[p] /= 0 /\ winnerBanner[p] = 0 /\ inbox[p] = <<>>
   /\ \A p \in Players : gameInfo[p] /\ ~loadPending[p]
   /\ asyncOps = {}
   /\ lastTurnChanged[1] = lastTurnChanged[2]
   /\ inFlight = {} /\ ~ledgerFinished)
    => isMyTurn[1] /= isMyTurn[2]

\* C9: only the engine of the participant who sent the request hands the transaction of
\* that request to the ledger.
C9_OnlyRequesterSubmits ==
  \A e \in Submissions :
    \E q \in proposed : q.id = e.tx.id /\ q.by = e.by

\* C10: an engine calls the ledger submission on a move_signed / finish_signed frame only
\* if it then holds an outstanding proposal of its own of the same kind and sequence.
C10_SubmitsOnlyOwnOutstanding ==
  [][Len(ledgerLog') > Len(ledgerLog) =>
       LET e == ledgerLog'[Len(ledgerLog')]
       IN \E q \in Outstanding(e.by) : q.id = e.tx.id /\ q.kind = e.tx.kind]_vars

\* the frames connection c has not handled yet, after it handled k of them
Unread(c, k) == SubSeq(inbox[c], k + 1, Len(inbox[c]))

\* the frames added to the queue of connection c in a step in which c handled k frames
Added(c, k) == SubSeq(inbox'[c], Len(inbox[c]) - k + 1, Len(inbox'[c]))

\* in this step connection c handled k frames and the relay queued new ones behind
\* the unread ones
InOrder(c, k) ==
  /\ k <= Len(inbox[c])
  /\ Len(inbox'[c]) >= Len(inbox[c]) - k
  /\ SubSeq(inbox'[c], 1, Len(inbox[c]) - k) = Unread(c, k)

\* C23: the connections bound to a game receive the relayed messages in the order the
\* relay handled them: each step queues the same new frames, in the same order,
\* behind the unread frames of both players' connections.
C23_SameOrder ==
  [][\E k1 \in {0, 1} : \E k2 \in {0, 1} :
       /\ InOrder(1, k1) /\ InOrder(2, k2)
       /\ Added(1, k1) = Added(2, k2)]_vars

\* both players' connections hold the same two different frames in the same order
C23_Witness ==
  /\ Len(inbox[1]) = 2
  /\ inbox[1] = inbox[2]
  /\ inbox[1][1].type /= inbox[1][2].type

\* a submission left inFlight and the ledger confirmed nothing
Rejection ==
  /\ inFlight' /= inFlight /\ inFlight' \subseteq inFlight
  /\ processed' = processed /\ ledgerFinished' = ledgerFinished

Receives(p, t) ==
  /\ inbox[p] /= <<>>
  /\ Head(inbox[p]).type = t
  /\ \/ inbox'[p] = Tail(inbox[p])
     \/ \E m \in {inbox'[p][i] : i \in 1..Len(inbox'[p])} :
          m.type = "finish_signed" /\ inbox'[p] = Append(Tail(inbox[p]), m)

\* engine p loses some of its per-turn state in this step
Clears(p) ==
  \/ dice[p] /\ ~dice'[p]
  \/ selectedCell[p] /\ ~selectedCell'[p]
  \/ pendingMove[p] /= <<>> /\ pendingMove'[p] = <<>>

\* the ledger confirmed a move engine p submitted, in this step
Confirmed(p) ==
  \E s \in inFlight \ inFlight' : s.by = p /\ s.tx.id \in processed' \ processed

\* C17 as stated: an engine clears dice, selected cell and pending move only when it
\* receives the turn announcement.
C17_ClearedOnlyOnAnnouncement ==
  [][\A p \in Players : Clears(p) => Receives(p, "turn_changed")]_vars

\* C17, amended: an engine that receives a turn announcement clears dice, selected cell
\* and pending move, and nothing else clears its dice; the engine whose submission the
\* ledger confirmed clears its pending move and its selection at once, before any
\* announcement, and keeps the dice.
C17_ClearedOnAnnouncementAndSubmission ==
  [][\A p \in Players :
       /\ (Receives(p, "turn_changed") /\ Head(inbox[p]).newTurn /= 0) =>
            (~dice'[p] /\ ~selectedCell'[p] /\ pendingMove'[p] = <<>>)
       /\ (dice[p] /\ ~dice'[p]) => Receives(p, "turn_changed")
       /\ Confirmed(p) => (pendingMove'[p] = <<>> /\ ~selectedCell'[p] /\ dice'[p])]_vars

\* engine 1 submitted its move and has cleared the pending move while the turn
\* announcement is still on its way to it
C17_Witness ==
  /\ \E e \in Submissions : e.by = 1 /\ e.tx.id \in processed
  /\ inbox[1] /= <<>> /\ Head(inbox[1]).type = "turn_changed"
  /\ lastTurnChanged[1] = 0
  /\ pendingMove[1] = <<>> /\ ~selectedCell[1] /\ dice[1]

\* the ledger refused a move engine p submitted, in this step
Refused(p) ==
  /\ processed' = processed
  /\ \E s \in inFlight \ inFlight' : s.by = p /\ s.path = "move"

\* C18: when the submission of a move fails, the submitter's pending move is cleared;
\* a failed submission leaves no pending move behind.
C18_FailedSubmissionClears ==
  [][\A p \in Players : Refused(p) => pendingMove'[p] = <<>>]_vars

\* ------------------------------------------- connection loss (LinkSpec, BackoffSpec)
\* player 1 proposed a move, player 2 received it and lost its connection before
\* answering, nothing was submitted
ScenarioD ==
  /\ \E q \in proposed : q.by = 1
  /\ pendingMove[2] /= <<>>
  /\ 2 \notin open
  /\ ledgerLog = <<>>

\* C14: once the ledger has seen no activity for the timeout, each engine offers the
\* timeout refund among its actions, whether or not a proposal is in flight.
C14_RefundOffered ==
  inactive => \A p \in Players : "forceRefund" \in Buttons(p)

\* violated: scenario D with the timeout elapsed is reachable
ScenarioDUnreached == ~(ScenarioD /\ inactive)

\* C19: once a lost connection is open again it is subscribed to the game again, so a
\* move_request the other engine sends into the game is delivered to it.
C19_DeliveredAfterReconnect ==
  [][\A p \in Players : \A q \in Players \ {p} :
       ((\E x \in proposed' \ proposed : x.by = q /\ x.kind = "make_move") /\ p \in open)
         => /\ inbox'[p] /= <<>>
            /\ inbox'[p][Len(inbox'[p])].type = "move_request"
            /\ inbox'[p] = Append(inbox[p], inbox'[p][Len(inbox'[p])])]_vars

\* C20: the delays of consecutive reconnection attempts double: the delay scheduled
\* before attempt k+1 is twice the delay scheduled before attempt k.
C20_DelaysDouble ==
  \A p \in Players : \A k \in 1..(Len(delays[p]) - 1) :
    delays[p][k + 1] = 2 * delays[p][k]

\* engine p handles a request frame that carries its own identity as the sender
OwnEcho(p) ==
  /\ Receives(p, "move_request") \/ Receives(p, "finish_request")
  /\ Head(inbox[p]).playerPubkey = p

\* C24: an engine that receives the relay's echo of its own move_request or
\* finish_request keeps its pending move and its pending finish as they were.
C24_OwnEchoIgnored ==
  [][\A p \in Players :
       OwnEcho(p) => /\ pendingMove'[p] = pendingMove[p]
                     /\ pendingFinish'[p] = pendingFinish[p]]_vars


\* engine p sends a move_request or a finish_request in this step
Requests(p) == \E r \in proposed' \ proposed : r.by = p

\* C25: an engine sends a move_request or a finish_request only while its isMyTurn is
\* true.
C25_RequestsOnlyOnOwnTurn ==
  [][\A p \in Players : Requests(p) => isMyTurn[p]]_vars


\* C26: an engine that is not the turn owner and receives a finish_request with a
\* transaction and a winner countersigns it in the same step: it sends one
\* finish_signed with the request's winner, which the relay queues once on every
\* player's connection, and it holds no pending finish afterwards.
C26_AutoCountersign ==
  [][\A p \in Players :
       (/\ Receives(p, "finish_request")
        /\ ~isMyTurn[p]
        /\ Head(inbox[p]).transactionData /= NoTx
        /\ Head(inbox[p]).winnerPubkey /= 0) =>
         LET req == Head(inbox[p])
             signed == FinishSigned(p, [winnerPubkey |-> req.winnerPubkey,
                                        transactionData |-> req.transactionData])
         IN /\ pendingFinish'[p] = <<>>
            /\ signed.winnerPubkey = req.winnerPubkey
            /\ inbox'[p] = Append(Tail(inbox[p]), signed)
            /\ \A q \in Players \ {p} : inbox'[q] = Append(inbox[q], signed)]_vars

\* engine 2, not the turn owner, has countersigned player 1's finish request: the
\* proposer's queue holds its finish_signed naming winner 1, and engine 2 holds no
\* pending finish
C26_Witness ==
  /\ ~isMyTurn[2] /\ pendingFinish[2] = <<>>
  /\ \E i \in 1..Len(inbox[1]) :
       /\ inbox[1][i].type = "finish_signed"
       /\ inbox[1][i].playerPubkey = 2
       /\ inbox[1][i].winnerPubkey = 1
       /\ SignaturesLength(TransactionFrom(inbox[1][i].transactionData)) = 2


\* the move_signed and finish_signed frames of the engines that are queued on the
\* players' connections or were seen by the third client
SignedFrames ==
  {m \in observed \cup UNION {{inbox[c][i] : i \in 1..Len(inbox[c])} : c \in Players} :
     m.type \in {"move_signed", "finish_signed"} /\ m.playerPubkey \in Players}

\* C27: every move_signed or finish_signed frame an engine sends carries a transaction
\* signed by both players.
C27_SignedByBoth ==
  \A m \in SignedFrames :
    m.transactionData /= NoTx /\ TransactionFrom(m.transactionData).sigs = Players


C29_PlayersWrittenOnce ==
  [][\A r \in games :
       /\ \E r2 \in games' : r2.game_pubkey = r.game_pubkey
       /\ \A r2 \in games' :
            r2.game_pubkey = r.game_pubkey =>
              r2.player1 = r.player1 /\ r2.player2 = r.player2]_vars

\* S1 got a status update and a logged move, S2 was registered by other players; S1
\* still names players 1 and 2
C29_Witness ==
  /\ moves = 1
  /\ \E r \in games : /\ r.game_pubkey = S1 /\ r.status = "finished"
                       /\ r.player1 = 1 /\ r.player2 = 2
  /\ \E r \in games : r.game_pubkey = "S2" /\ r.player1 = 3


\* C30: after disconnect() the client schedules no reconnect and makes no connection
\* attempt until the application calls connect() again.
C30_NoReconnectAfterDisconnect ==
  [][\A p \in Players :
       disconnected[p] => /\ reconnectTimer'[p] \subseteq reconnectTimer[p]
                          /\ connecting'[p] => connecting[p]]_vars


\* C31: automatic reconnection ends: reconnectAttempts never exceeds
\* maxReconnectAttempts, a client that already made maxReconnectAttempts attempts
\* since its socket was last open schedules no further one, and a socket that opens
\* resets the counter to 0.
C31_ReconnectionEnds ==
  [][\A p \in Players :
       /\ reconnectAttempts'[p] <= maxReconnectAttempts
       /\ Len(delays[p]) >= maxReconnectAttempts =>
            reconnectTimer'[p] \subseteq reconnectTimer[p]
       /\ (p \notin open /\ p \in open') => reconnectAttempts'[p] = 0]_vars

\* client 1 lost its socket and then failed maxReconnectAttempts times to open a new
\* one: the last close scheduled nothing and the client is idle
C31_Witness ==
  /\ 1 \notin open /\ ~connecting[1]
  /\ reconnectAttempts[1] = maxReconnectAttempts
  /\ reconnectTimer[1] = {}
  /\ nLosses = maxReconnectAttempts + 1
  /\ 2 \in open /\ reconnectAttempts[2] = 0

\* C32: the engine that proposed a finish never countersigns its own request: no
\* finish_signed frame of an engine carries a finish transaction that this engine
\* proposed.
C32_NoOwnCountersignature ==
  \A m \in SignedFrames :
    m.type = "finish_signed" =>
      [by |-> m.playerPubkey, id |-> TransactionFrom(m.transactionData).id,
       kind |-> "finish_game"] \notin proposed

\* C33: at no time do both engines have isMyTurn = true (in the runs of the two
\* engines alone, without frames of a third client).
C33_NeverTwoTurnOwners ==
  nReplays = 0 => ~(isMyTurn[1] /\ isMyTurn[2])

\* nothing is under way between the two engines: every frame was handled, no call
\* of confirmMove or confirmWin and no submission is pending, no request waits for a
\* signature, both game infos are loaded and no third client sent a frame
Quiescent ==
  /\ nReplays = 0
  /\ \A p \in Players : inbox[p] = <<>> /\ ~loadPending[p]
  /\ \A p \in Players : pendingMove[p] = <<>> /\ pendingFinish[p] = <<>>
  /\ asyncOps = {}
  /\ inFlight = {}

\* C34: in a quiescent session no engine shows the board of a proposed move the
\* ledger did not confirm, and once a move was confirmed both engines hold the same
\* board, that of a confirmed move.
C34_BoardsAgree ==
  Quiescent =>
    /\ \A p \in Players : boardPoints[p] = 0 \/ boardPoints[p] \in processed
    /\ processed /= {} =>
         boardPoints[1] = boardPoints[2] /\ boardPoints[1] \in processed

\* engine p received game_finished: it shows the winner banner and did not set it
\* itself after the confirmation of a finish it submitted (no submission of a finish
\* by p has returned)
SawGameFinished(p) ==
  /\ winnerBanner[p] /= 0
  /\ ~\E e \in Submissions \ inFlight : e.by = p /\ e.path = "finish"

\* C35: an engine that received game_finished never has isMyTurn = true again and
\* sends no further move_request or finish_request.
C35_NoRequestAfterGameFinished ==
  [][\A p \in Players :
       SawGameFinished(p) => ~isMyTurn'[p] /\ ~Requests(p)]_vars

====
